---------------------------- MODULE Spec2Model ----------------------------
(***************************************************************************)
(* make_astral_map.py: extraction of taxon labels from NEXUS and FASTA     *)
(* alignments and generation of the ASTRAL map file.                       *)
(*                                                                         *)
(* A text is a sequence of one-character strings.  The pure functions of   *)
(* the script are operators on such sequences; main and gather_taxa are    *)
(* state machines.  Each group of variables belongs to one specification   *)
(* and is parked at an idle value by the others.                           *)
(***************************************************************************)
EXTENDS Integers, Sequences, FiniteSets

VARIABLES
    line, spans, toks, tpc,          \* tokenize: argument, matches, result
    text, no_comments, kept, twice,  \* parse_nexus_taxa: raw, stripped text
    labels, mlabels, consulted,      \* its TAXLABELS and MATRIX labels
    taxa, cleaned, npc,              \* its set, its result, its position
    path, fmt, dpc,                  \* detect_format_from_content: file, result
    root_ok, files, strict,          \* main: --input is a directory, the rglob
                                     \* result, --strict
    pos, scanned, taxa_all, returned,\* gather_taxa: next file, files handled,
                                     \* its set, whether it returned
    groups_arg, mapping,             \* --groups and the table loaded from it
    default_group_mode,              \* --default-group
    rows, out_map, map_written,      \* the rows written, the map file
    out_taxa,                        \* the taxa list file of --out-taxa
    status, mpc                      \* exit status (-1: running), position

tokVars == <<line, spans, toks, tpc>>
nexVars == <<text, no_comments, kept, twice, labels, mlabels, consulted, taxa, cleaned, npc>>
detVars == <<path, fmt, dpc>>
mainVars == <<root_ok, files, strict, pos, scanned, taxa_all, returned, groups_arg,
              mapping, default_group_mode, rows, out_map, map_written, out_taxa, status, mpc>>
vars == <<line, spans, toks, tpc,
          text, no_comments, kept, twice, labels, mlabels, consulted, taxa, cleaned, npc,
          path, fmt, dpc,
          root_ok, files, strict, pos, scanned, taxa_all, returned, groups_arg,
          mapping, default_group_mode, rows, out_map, map_written, out_taxa, status, mpc>>

(***************************************************************************)
(* Bounds of the model.                                                    *)
(***************************************************************************)
MaxLineLen == 5
MaxTextLen == 6
MaxChunks == 5
MaxDetectLines == 2
MaxFiles == 3

(***************************************************************************)
(* Characters and the str methods the script uses.                         *)
(***************************************************************************)
Min(S) == CHOOSE x \in S : \A y \in S : x <= y
Max(S) == CHOOSE x \in S : \A y \in S : x >= y

\* str.isspace / regex \s, over the characters the model draws from
IsSpace(c) == c \in {" ", "\t", "\n"}

\* str.strip()
Strip(s) ==
    LET keep == {i \in 1..Len(s) : ~IsSpace(s[i])}
    IN  IF keep = {} THEN <<>> ELSE SubSeq(s, Min(keep), Max(keep))

(***************************************************************************)
(* tokenize and TOKEN_RE: a single-quoted span, else a double-quoted span, *)
(* else a run of non-blank characters.                                     *)
(***************************************************************************)
\* One match of TOKEN_RE at position i of s, if any: the alternatives are tried
\* in order; a quoted alternative matches up to the first later quote of the
\* same kind, the third takes the longest run of non-blanks.
HasMatchAt(s, i) == ~IsSpace(s[i])

MatchAt(s, i) ==
    LET c     == s[i]
        close == {j \in (i+1)..Len(s) : s[j] = c}
        run   == {j \in i..Len(s) : \A k \in i..j : ~IsSpace(s[k])}
    IN  IF c = "'" /\ close # {} THEN [group |-> 1, from |-> i, to |-> Min(close)]
        ELSE IF c = "\"" /\ close # {} THEN [group |-> 2, from |-> i, to |-> Min(close)]
        ELSE [group |-> 3, from |-> i, to |-> Max(run)]

\* TOKEN_RE.finditer(s): the non-overlapping matches, left to right
RECURSIVE FindIter(_, _)
FindIter(s, i) ==
    IF i > Len(s) THEN <<>>
    ELSE IF HasMatchAt(s, i)
         THEN <<MatchAt(s, i)>> \o FindIter(s, MatchAt(s, i).to + 1)
         ELSE FindIter(s, i + 1)

\* a mutant of MatchGroup: the quotes stay in the token
MatchGroupKeepQuotes(s, m) == SubSeq(s, m.from, m.to)

\* next(g for g in m.groups() if g is not None)
MatchGroup(s, m) ==
    IF m.group = 3 THEN SubSeq(s, m.from, m.to)
    ELSE SubSeq(s, m.from + 1, m.to - 1)

Tokenize(l) ==
    LET s  == Strip(l)
        ms == FindIter(s, 1)
    IN  [k \in 1..Len(ms) |-> MatchGroup(s, ms[k])]

(***************************************************************************)
(* strip_nexus_comments and COMMENT_RE: the shortest bracketed spans.      *)
(***************************************************************************)
\* the matches of COMMENT_RE from position i on: a match starts at the first [
\* that has a ] after it and ends at the first such ]
RECURSIVE CommentMatches(_, _)
CommentMatches(s, i) ==
    IF i > Len(s) THEN {}
    ELSE LET close == {j \in (i+1)..Len(s) : s[j] = "]"}
         IN  IF s[i] = "[" /\ close # {}
             THEN {<<i, Min(close)>>} \cup CommentMatches(s, Min(close) + 1)
             ELSE CommentMatches(s, i + 1)

\* a mutant of SubbedIdx: re.sub with count=1, only the first comment goes
SubbedIdxFirstOnly(s) ==
    LET ms == CommentMatches(s, 1)
    IN  IF ms = {} THEN {}
        ELSE LET m == CHOOSE m \in ms : \A o \in ms : m[1] <= o[1]
             IN  m[1]..m[2]

\* the indices re.sub replaces by the empty string
SubbedIdx(s) == UNION {m[1]..m[2] : m \in CommentMatches(s, 1)}

KeptIdx(s) == (1..Len(s)) \ SubbedIdx(s)

\* the characters of s at the indices K, in order
SelectIdx(s, K) ==
    [x \in 1..Cardinality(K) |->
        s[CHOOSE i \in K : Cardinality({j \in K : j <= i}) = x]]

StripNexusComments(s) == SelectIdx(s, KeptIdx(s))

(***************************************************************************)
(* str.lower, str.find, str.startswith, str.splitlines                     *)
(***************************************************************************)
UpperCase == <<"A", "B", "C", "D", "E", "F", "G", "H", "I", "J", "K", "L", "M",
               "N", "O", "P", "Q", "R", "S", "T", "U", "V", "W", "X", "Y", "Z">>
LowerCase == <<"a", "b", "c", "d", "e", "f", "g", "h", "i", "j", "k", "l", "m",
               "n", "o", "p", "q", "r", "s", "t", "u", "v", "w", "x", "y", "z">>

LowerChar(c) ==
    IF \E i \in 1..Len(UpperCase) : UpperCase[i] = c
    THEN LowerCase[CHOOSE i \in 1..Len(UpperCase) : UpperCase[i] = c]
    ELSE c
UpperChar(c) ==
    IF \E i \in 1..Len(LowerCase) : LowerCase[i] = c
    THEN UpperCase[CHOOSE i \in 1..Len(LowerCase) : LowerCase[i] = c]
    ELSE c
Lower(s) == [i \in 1..Len(s) |-> LowerChar(s[i])]
Upper(s) == [i \in 1..Len(s) |-> UpperChar(s[i])]

StartsWith(s, p) == Len(s) >= Len(p) /\ SubSeq(s, 1, Len(p)) = p

\* s.find(w) as a 1-based index, 0 for -1
Find(s, w) ==
    LET at == {i \in 1..Len(s) : StartsWith(SubSeq(s, i, Len(s)), w)}
    IN  IF at = {} THEN 0 ELSE Min(at)

\* s[: s.find(c)] when c is in s
UpTo(s, c) == SubSeq(s, 1, Find(s, <<c>>) - 1)

RECURSIVE SplitLines(_)
SplitLines(s) ==
    IF s = <<>> THEN <<>>
    ELSE LET nl == Find(s, <<"\n">>)
         IN  IF nl = 0 THEN <<s>>
             ELSE <<SubSeq(s, 1, nl - 1)>> \o SplitLines(SubSeq(s, nl + 1, Len(s)))

Range(f) == {f[i] : i \in DOMAIN f}

TAXLABELS == <<"t", "a", "x", "l", "a", "b", "e", "l", "s">>
MATRIX == <<"m", "a", "t", "r", "i", "x">>
FORMAT == <<"f", "o", "r", "m", "a", "t">>
DIMENSIONS == <<"d", "i", "m", "e", "n", "s", "i", "o", "n", "s">>
END == <<"e", "n", "d">>
BEGIN == <<"b", "e", "g", "i", "n">>

(***************************************************************************)
(* parse_taxlabels_block                                                   *)
(***************************************************************************)
ParseTaxlabelsBlock(t) ==
    LET idx == Find(Lower(t), TAXLABELS)
        sub == SubSeq(t, idx, Len(t))
    IN  IF idx = 0 THEN <<>>
        ELSE IF Find(sub, <<";">>) = 0 THEN <<>>
        ELSE LET cut == UpTo(sub, ";")
             IN  Tokenize(Strip(SubSeq(cut, Len(TAXLABELS) + 1, Len(cut))))

(***************************************************************************)
(* parse_matrix_block                                                      *)
(***************************************************************************)
\* the text parse_matrix_block reads its rows from: what follows the keyword,
\* cut at the first ; when there is one
MatrixSub(t) ==
    LET midx == Find(Lower(t), MATRIX)
        sub  == SubSeq(t, midx + Len(MATRIX), Len(t))
    IN  IF Find(sub, <<";">>) # 0 THEN UpTo(sub, ";") ELSE sub

SkippedLine(l) ==
    \E w \in {MATRIX, FORMAT, DIMENSIONS, END, BEGIN} : StartsWith(Lower(l), w)

RECURSIVE RowLabels(_)
RowLabels(ls) ==
    IF ls = <<>> THEN <<>>
    ELSE LET l == Strip(Head(ls))
         IN  IF l = <<>> \/ SkippedLine(l) \/ Tokenize(l) = <<>>
             THEN RowLabels(Tail(ls))
             ELSE <<Tokenize(l)[1]>> \o RowLabels(Tail(ls))

ParseMatrixBlock(t) ==
    IF Find(Lower(t), MATRIX) = 0 THEN <<>>
    ELSE RowLabels(SplitLines(MatrixSub(t)))

(***************************************************************************)
(* parse_nexus_taxa                                                        *)
(***************************************************************************)
\* a mutant of NeedMatrix: the MATRIX labels are always merged in
NeedMatrixAlways(t) == TRUE

\* "if not taxa": the MATRIX block is read only into an empty set
NeedMatrix(t) == t = {}

\* l.rstrip(";")
RStripSemi(l) ==
    LET keep == {i \in 1..Len(l) : l[i] # ";"}
    IN  IF keep = {} THEN <<>> ELSE SubSeq(l, 1, Max(keep))

\* set(l.strip().rstrip(";") for l in taxa if l.strip())
Cleaned(t) == {RStripSemi(Strip(l)) : l \in {x \in t : Strip(x) # <<>>}}

ParseNexusTaxa(raw) ==
    LET nc == StripNexusComments(raw)
        tl == Range(ParseTaxlabelsBlock(nc))
    IN  Cleaned(IF NeedMatrix(tl) THEN tl \cup Range(ParseMatrixBlock(nc)) ELSE tl)

(***************************************************************************)
(* Files.  A file is [ext, lines, fail]: the suffix of its path, its lines *)
(* without their newlines, and fail = 0 when it reads well, 1 when opening *)
(* it raises, k > 1 when reading its k-th line raises.                     *)
(***************************************************************************)
RECURSIVE JoinLines(_)
JoinLines(ls) ==
    IF ls = <<>> THEN <<>>
    ELSE IF Len(ls) = 1 THEN ls[1]
    ELSE ls[1] \o <<"\n">> \o JoinLines(Tail(ls))

\* path.read_text(...)
ReadText(f) == JoinLines(f.lines)

(***************************************************************************)
(* parse_fasta_taxa                                                        *)
(***************************************************************************)
\* label.split()[0] of a stripped, non-empty label
FirstWord(l) ==
    LET blanks == {i \in 1..Len(l) : IsSpace(l[i])}
    IN  IF blanks = {} THEN l ELSE SubSeq(l, 1, Min(blanks) - 1)

ParseFastaTaxa(f) ==
    {FirstWord(Strip(Tail(l))) :
        l \in {x \in Range(f.lines) : x # <<>> /\ x[1] = ">" /\ Strip(Tail(x)) # <<>>}}

(***************************************************************************)
(* detect_format_from_content                                              *)
(***************************************************************************)
DetectWindow == 50

NEXUS_SIG == <<"#", "N", "E", "X", "U", "S">>
EXT_FASTA == { <<".", "f", "a", "s", "t", "a">>, <<".", "f", "a">>, <<".", "f", "a", "s">> }
EXT_NEXUS == { <<".", "n", "e", "x">>, <<".", "n", "e", "x", "u", "s">> }

\* the fallback on path.suffix.lower()
ByExtension(f) ==
    IF Lower(f.ext) \in EXT_FASTA THEN "fasta"
    ELSE IF Lower(f.ext) \in EXT_NEXUS THEN "nexus"
    ELSE "unknown"

\* a mutant of OnReadError: no try/except around the reading
OnReadErrorRaise(f) == "raise"

\* except Exception: pass, then the fallback
OnReadError(f) == ByExtension(f)

\* the loop "for _ in range(50)": i is the number of the readline call
RECURSIVE DetectFrom(_, _)
DetectFrom(f, i) ==
    IF i > DetectWindow THEN ByExtension(f)
    ELSE IF f.fail # 0 /\ f.fail <= i THEN OnReadError(f)
    ELSE IF i > Len(f.lines) THEN ByExtension(f)
    ELSE LET s == Strip(f.lines[i])
         IN  IF s = <<>> THEN DetectFrom(f, i + 1)
             ELSE IF StartsWith(s, <<">">>) THEN "fasta"
             ELSE IF StartsWith(Upper(s), NEXUS_SIG) THEN "nexus"
             ELSE DetectFrom(f, i + 1)

DetectFormatFromContent(f) == DetectFrom(f, 1)

(***************************************************************************)
(* sorted(taxa): strings compare by code point, a proper prefix first.     *)
(***************************************************************************)
\* the characters of the model in code point order
CodeOrder == <<"\t", "\n", " ", "\"", "#", "'", ".", ";", ">">> \o UpperCase
             \o <<"[", "]">> \o LowerCase
Code(c) == CHOOSE i \in 1..Len(CodeOrder) : CodeOrder[i] = c

LexLess(a, b) ==
    \E k \in 1..(Len(b)) :
        /\ \A x \in 1..(k-1) : x <= Len(a) /\ a[x] = b[x]
        /\ k > Len(a) \/ Code(a[k]) < Code(b[k])

RECURSIVE Sorted(_)
Sorted(S) ==
    IF S = {} THEN <<>>
    ELSE LET m == CHOOSE x \in S : \A y \in S \ {x} : LexLess(x, y)
         IN  <<m>> \o Sorted(S \ {m})

(***************************************************************************)
(* gather_taxa                                                             *)
(***************************************************************************)
\* reading a file that fails raises in either extractor
Raises(f) == f.fail # 0

\* what the body of the loop gets from one file: the detected format, whether
\* the extractor raises, and the labels it returns
Outcome(f) ==
    LET d == DetectFormatFromContent(f)
    IN  [fmt    |-> d,
         raises |-> d \in {"fasta", "nexus"} /\ Raises(f),
         ts     |-> IF d = "fasta" /\ ~Raises(f) THEN ParseFastaTaxa(f)
                    ELSE IF d = "nexus" /\ ~Raises(f) THEN ParseNexusTaxa(ReadText(f))
                    ELSE {}]

\* "if strict: raise ValueError" for an unknown format
RaiseUnknown(strict_) == strict_

\* a mutant of Reraise: the handler swallows the exception in strict mode too
ReraiseNever(strict_) == FALSE

\* "except Exception: if strict: raise"
Reraise(strict_) == strict_

\* a mutant of Update: the labels of a file replace the set
UpdateReplace(acc, ts) == ts

\* taxa.update(ts)
Update(acc, ts) == acc \cup ts

\* the file raises inside the try block
Excepts(o, strict_) == o.raises \/ (o.fmt = "unknown" /\ RaiseUnknown(strict_))

\* gather_taxa as a whole: ok is FALSE when an exception leaves it
RECURSIVE GatherFrom(_, _, _, _)
GatherFrom(os, i, strict_, acc) ==
    IF i > Len(os) THEN [ok |-> TRUE, taxa |-> acc]
    ELSE IF Excepts(os[i], strict_)
         THEN IF Reraise(strict_) THEN [ok |-> FALSE, taxa |-> {}]
              ELSE GatherFrom(os, i + 1, strict_, acc)
    ELSE IF os[i].fmt = "unknown" THEN GatherFrom(os, i + 1, strict_, acc)
    ELSE GatherFrom(os, i + 1, strict_, Update(acc, os[i].ts))

(***************************************************************************)
(* pick_group                                                              *)
(***************************************************************************)
NA == <<"N", "A">>

\* a mutant of PickGroup: an empty mapped value counts as no mapping
PickGroupOrDefault(t, m, mode) ==
    IF t \in DOMAIN m /\ m[t] # <<>> THEN m[t]
    ELSE IF mode = "species" THEN t
    ELSE IF mode = "NA" THEN NA
    ELSE <<>>

PickGroup(t, m, mode) ==
    IF t \in DOMAIN m THEN m[t]
    ELSE IF mode = "species" THEN t
    ELSE IF mode = "NA" THEN NA
    ELSE IF mode = "none" THEN <<>>
    ELSE t

\* the text written to out_map: one line per taxon of the sorted set
MapLine(t, m, mode) == t \o <<"\t">> \o PickGroup(t, m, mode) \o <<"\n">>

(***************************************************************************)
(* Input domains.                                                          *)
(***************************************************************************)
SeqsUpTo(S, n) == UNION {[1..k -> S] : k \in 0..n}

RECURSIVE Concat(_)
Concat(ss) == IF ss = <<>> THEN <<>> ELSE Head(ss) \o Concat(Tail(ss))

TokAlphabet == {"a", " ", "\t", "'", "\""}
TokLines == SeqsUpTo(TokAlphabet, MaxLineLen)

StripAlphabet == {"[", "]", "m", "\n"}
StripTexts == SeqsUpTo(StripAlphabet, MaxTextLen)

\* NEXUS texts: up to MaxChunks pieces, each a keyword, a terminator, a row or
\* label, or a comment
NexusChunks == {
    <<"T", "a", "x", "L", "a", "b", "e", "l", "s">>,
    <<"M", "a", "t", "r", "i", "x">>,
    <<";">>,
    <<" ", "a">>,
    <<"\n", "'", "b", " ", "c", "'", " ", "g">>,
    <<"[", ";", "]">> }
NexusTexts == {Concat(cs) : cs \in SeqsUpTo(NexusChunks, MaxChunks)}

\* files for the detector: an extension, a failure point, and up to
\* MaxDetectLines lines behind 0, DetectWindow - 1 or DetectWindow blank lines
DetectExts == {
    <<".", "f", "a", "s", "t", "a">>, <<".", "F", "a">>, <<".", "f", "a", "s">>,
    <<".", "n", "e", "x">>, <<".", "N", "E", "X", "U", "S">>,
    <<".", "t", "x", "t">>, <<".", "f", "a", "s", "t">>, <<>> }
DetectLines == {
    <<>>,
    <<" ", "\t">>,
    <<">", "a">>,
    <<"\t", ">">>,
    <<"#", "N", "E", "X", "U", "S">>,
    <<" ", "#", "n", "e", "X", "u", "s", " ", "x">>,
    <<"a", ">", "#", "N", "E", "X", "U", "S">>,
    <<"#", "N", "E", "X", "U">> }
Blank(n) == [i \in 1..n |-> <<>>]
DetectFiles ==
    {[ext |-> e, lines |-> Blank(n) \o b, fail |-> k] :
        e \in DetectExts,
        n \in {0, DetectWindow - 1, DetectWindow},
        b \in SeqsUpTo(DetectLines, MaxDetectLines),
        k \in {0, 1, 2, DetectWindow + 1}}

\* the files of the input folder: a FASTA file with a repeated header, a NEXUS
\* file with TAXLABELS (one label quoted around a tab) and a MATRIX, a NEXUS
\* file recognised by content only, a file of no known format, a file that
\* cannot be opened, an empty file
FastaFile ==
    [ext |-> <<".", "f", "a", "s", "t", "a">>,
     lines |-> <<<<">", "A", " ", "d">>,
               <<"A", "C", "G", "T">>,
               <<">", "B">>,
               <<">", "A", " ", "x">>>>,
     fail |-> 0]
TaxlabelsFile ==
    [ext |-> <<".", "n", "e", "x">>,
     lines |-> <<<<"#", "N", "E", "X", "U", "S">>,
               <<"t", "a", "x", "l", "a", "b", "e", "l", "s", " ", "'", "B", "\t", "c", "'", " ", "D", ";">>,
               <<"m", "a", "t", "r", "i", "x">>,
               <<"E", " ", "x">>,
               <<";">>>>,
     fail |-> 0]
MatrixFile ==
    [ext |-> <<".", "t", "x", "t">>,
     lines |-> <<<<"#", "n", "e", "x", "u", "s">>,
               <<"M", "a", "t", "r", "i", "x">>,
               <<"A", " ", "x">>,
               <<"E", " ", "y">>,
               <<";">>>>,
     fail |-> 0]
UnknownFile ==
    [ext |-> <<".", "t", "x", "t">>,
     lines |-> <<<<"h", "e", "l", "l", "o">>>>,
     fail |-> 0]
UnreadableFile ==
    [ext |-> <<".", "f", "a">>,
     lines |-> <<<<">", "Z">>>>,
     fail |-> 1]
EmptyFile ==
    [ext |-> <<".", "f", "a", "s">>,
     lines |-> <<>>,
     fail |-> 0]
FileCatalog == {FastaFile, TaxlabelsFile, MatrixFile, UnknownFile, UnreadableFile, EmptyFile}
FileLists == SeqsUpTo(FileCatalog, MaxFiles)

\* computed once per file
FileOutcome == [f \in FileCatalog |-> Outcome(f)]

\* what load_groups_csv returns for --groups: no table, or a table with a group,
\* an empty group and a taxon that is in no alignment
LabelA == <<"A">>
LabelBc == <<"B", "\t", "c">>
LabelQ == <<"Q">>
GroupX == <<"g", "X">>
GroupTable ==
    [t \in {LabelA, LabelBc, LabelQ} |->
        IF t = LabelBc THEN <<>> ELSE GroupX]
NoTable == [t \in {} |-> <<>>]
Modes == {"species", "NA", "none"}

(***************************************************************************)
(* Idle values of each group of variables.                                 *)
(***************************************************************************)
TokIdle == line = <<>> /\ spans = <<>> /\ toks = <<>> /\ tpc = "off"

NexFresh ==
    /\ no_comments = <<>> /\ kept = {} /\ twice = <<>>
    /\ labels = <<>> /\ mlabels = <<>> /\ consulted = FALSE
    /\ taxa = {} /\ cleaned = {}
NexIdle == text = <<>> /\ NexFresh /\ npc = "off"

NoFile == [ext |-> <<>>, lines |-> <<>>, fail |-> 0]
DetIdle == path = NoFile /\ fmt = "" /\ dpc = "off"

MainFresh ==
    /\ pos = 1 /\ scanned = <<>> /\ taxa_all = {} /\ returned = FALSE
    /\ groups_arg = "" /\ mapping = NoTable /\ default_group_mode = ""
    /\ rows = <<>> /\ out_map = <<>> /\ map_written = FALSE
    /\ out_taxa = [written |-> FALSE, lines |-> <<>>]
    /\ status = -1
MainIdle ==
    /\ root_ok = FALSE /\ files = <<>> /\ strict = FALSE
    /\ MainFresh /\ mpc = "off"

(***************************************************************************)
(* Specification SpecTok: tokenize applied to every bounded line.          *)
(***************************************************************************)
TokInit ==
    /\ line \in TokLines
    /\ spans = <<>>
    /\ toks = <<>>
    /\ tpc = "call"
    /\ NexIdle /\ DetIdle /\ MainIdle

TokenizeCall ==
    /\ tpc = "call"
    /\ spans' = FindIter(Strip(line), 1)
    /\ toks' = Tokenize(line)
    /\ tpc' = "done"
    /\ UNCHANGED <<line, nexVars, detVars, mainVars>>

TokNext == TokenizeCall
SpecTok == TokInit /\ [][TokNext]_vars

(***************************************************************************)
(* Specification SpecStrip: strip_nexus_comments applied to every bounded  *)
(* text, and again to its own result.                                      *)
(***************************************************************************)
StripInit ==
    /\ text \in StripTexts
    /\ NexFresh
    /\ npc = "read"
    /\ TokIdle /\ DetIdle /\ MainIdle

\* no_comments = strip_nexus_comments(raw); kept records where each surviving
\* character stood in the raw text
StripCall ==
    /\ npc = "read"
    /\ no_comments' = StripNexusComments(text)
    /\ kept' = KeptIdx(text)
    /\ npc' = "stripped"
    /\ UNCHANGED <<text, twice, labels, mlabels, consulted, taxa, cleaned, tokVars, detVars, mainVars>>

StripAgain ==
    /\ npc = "stripped"
    /\ twice' = StripNexusComments(no_comments)
    /\ npc' = "twice"
    /\ UNCHANGED <<text, no_comments, kept, labels, mlabels, consulted, taxa, cleaned, tokVars, detVars, mainVars>>

StripNext == StripCall \/ StripAgain
SpecStrip == StripInit /\ [][StripNext]_vars

(***************************************************************************)
(* Specification SpecNexus: parse_nexus_taxa, statement by statement.      *)
(***************************************************************************)
NexusInit ==
    /\ text \in NexusTexts
    /\ NexFresh
    /\ npc = "read"
    /\ TokIdle /\ DetIdle /\ MainIdle

\* labels = parse_taxlabels_block(no_comments); if labels: taxa.update(labels)
TaxlabelsStep ==
    /\ npc = "stripped"
    /\ labels' = ParseTaxlabelsBlock(no_comments)
    /\ taxa' = taxa \cup Range(labels')
    /\ npc' = "taxlabels"
    /\ UNCHANGED <<text, no_comments, kept, twice, mlabels, consulted, cleaned, tokVars, detVars, mainVars>>

\* if not taxa: taxa.update(parse_matrix_block(no_comments))
MatrixStep ==
    /\ npc = "taxlabels"
    /\ NeedMatrix(taxa)
    /\ mlabels' = ParseMatrixBlock(no_comments)
    /\ consulted' = TRUE
    /\ taxa' = taxa \cup Range(mlabels')
    /\ npc' = "matrix"
    /\ UNCHANGED <<text, no_comments, kept, twice, labels, cleaned, tokVars, detVars, mainVars>>

MatrixSkip ==
    /\ npc = "taxlabels"
    /\ ~NeedMatrix(taxa)
    /\ npc' = "matrix"
    /\ UNCHANGED <<text, no_comments, kept, twice, labels, mlabels, consulted, taxa, cleaned, tokVars, detVars, mainVars>>

\* cleaned = set(...); return cleaned
CleanStep ==
    /\ npc = "matrix"
    /\ cleaned' = Cleaned(taxa)
    /\ npc' = "return"
    /\ UNCHANGED <<text, no_comments, kept, twice, labels, mlabels, consulted, taxa, tokVars, detVars, mainVars>>

NexusNext == StripCall \/ TaxlabelsStep \/ MatrixStep \/ MatrixSkip \/ CleanStep
SpecNexus == NexusInit /\ [][NexusNext]_vars

(***************************************************************************)
(* Specification SpecDetect: detect_format_from_content on every bounded   *)
(* file.                                                                   *)
(***************************************************************************)
DetectInit ==
    /\ path \in DetectFiles
    /\ fmt = ""
    /\ dpc = "call"
    /\ TokIdle /\ NexIdle /\ MainIdle

DetectCall ==
    /\ dpc = "call"
    /\ fmt' = DetectFormatFromContent(path)
    /\ dpc' = "done"
    /\ UNCHANGED <<path, tokVars, nexVars, mainVars>>

DetectNext == DetectCall
SpecDetect == DetectInit /\ [][DetectNext]_vars

(***************************************************************************)
(* Specification SpecMain: a run of main over a list of files.             *)
(***************************************************************************)
ExitOk == 0
ExitUncaught == 1
ExitUsage == 2
ExitNoFiles == 2
ExitNoTaxa == 3

\* a mutant of EmptyResult: an empty set is written like any other
EmptyResultNever(t) == FALSE

\* "if not taxa" in main
EmptyResult(t) == t = {}

MainInit ==
    /\ root_ok \in BOOLEAN
    /\ files \in FileLists
    /\ strict \in BOOLEAN
    /\ MainFresh
    /\ mpc = "args"
    /\ TokIdle /\ NexIdle /\ DetIdle

others == <<tokVars, nexVars, detVars>>

\* if not root.is_dir(): ap.error(...)
BadInput ==
    /\ mpc = "args"
    /\ ~root_ok
    /\ status' = ExitUsage
    /\ mpc' = "exit"
    /\ UNCHANGED <<root_ok, files, strict, pos, scanned, taxa_all, returned, groups_arg,
                   mapping, default_group_mode, rows, out_map, map_written, out_taxa, others>>

\* if not files: sys.exit(2)
NoFiles ==
    /\ mpc = "args"
    /\ root_ok
    /\ files = <<>>
    /\ status' = ExitNoFiles
    /\ mpc' = "exit"
    /\ UNCHANGED <<root_ok, files, strict, pos, scanned, taxa_all, returned, groups_arg,
                   mapping, default_group_mode, rows, out_map, map_written, out_taxa, others>>

\* taxa = gather_taxa(files, strict=args.strict, ...)
CallGather ==
    /\ mpc = "args"
    /\ root_ok
    /\ files # <<>>
    /\ mpc' = "scan"
    /\ UNCHANGED <<root_ok, files, strict, pos, scanned, taxa_all, returned, groups_arg,
                   mapping, default_group_mode, rows, out_map, map_written, out_taxa, status, others>>

Scanning == mpc = "scan" /\ pos <= Len(files)
Current == FileOutcome[files[pos]]

\* the format is known and the extractor returns: taxa.update(ts)
ScanExtract ==
    /\ Scanning
    /\ ~Excepts(Current, strict) /\ Current.fmt # "unknown"
    /\ taxa_all' = Update(taxa_all, Current.ts)
    /\ scanned' = Append(scanned, pos)
    /\ pos' = pos + 1
    /\ UNCHANGED <<root_ok, files, strict, returned, groups_arg, mapping,
                   default_group_mode, rows, out_map, map_written, out_taxa, status, mpc, others>>

\* the format is unknown and the mode is not strict: continue
ScanIgnore ==
    /\ Scanning
    /\ ~Excepts(Current, strict) /\ Current.fmt = "unknown"
    /\ scanned' = Append(scanned, pos)
    /\ pos' = pos + 1
    /\ UNCHANGED <<root_ok, files, strict, taxa_all, returned, groups_arg, mapping,
                   default_group_mode, rows, out_map, map_written, out_taxa, status, mpc, others>>

\* an exception that the handler turns into a warning
ScanWarn ==
    /\ Scanning
    /\ Excepts(Current, strict) /\ ~Reraise(strict)
    /\ scanned' = Append(scanned, pos)
    /\ pos' = pos + 1
    /\ UNCHANGED <<root_ok, files, strict, taxa_all, returned, groups_arg, mapping,
                   default_group_mode, rows, out_map, map_written, out_taxa, status, mpc, others>>

\* an exception that the handler raises again: it leaves gather_taxa and main
ScanAbort ==
    /\ Scanning
    /\ Excepts(Current, strict) /\ Reraise(strict)
    /\ scanned' = Append(scanned, pos)
    /\ status' = ExitUncaught
    /\ mpc' = "exit"
    /\ UNCHANGED <<root_ok, files, strict, pos, taxa_all, returned, groups_arg, mapping,
                   default_group_mode, rows, out_map, map_written, out_taxa, others>>

\* return taxa; if not taxa: sys.exit(3)
NoTaxa ==
    /\ mpc = "scan" /\ pos > Len(files)
    /\ EmptyResult(taxa_all)
    /\ returned' = TRUE
    /\ status' = ExitNoTaxa
    /\ mpc' = "exit"
    /\ UNCHANGED <<root_ok, files, strict, pos, scanned, taxa_all, groups_arg, mapping,
                   default_group_mode, rows, out_map, map_written, out_taxa, others>>

GatherReturns ==
    /\ mpc = "scan" /\ pos > Len(files)
    /\ ~EmptyResult(taxa_all)
    /\ returned' = TRUE
    /\ mpc' = "groups"
    /\ UNCHANGED <<root_ok, files, strict, pos, scanned, taxa_all, groups_arg, mapping,
                   default_group_mode, rows, out_map, map_written, out_taxa, status, others>>

\* if args.groups: mapping = load_groups_csv(...); the table cannot be read
GroupsUnreadable ==
    /\ mpc = "groups"
    /\ groups_arg' = "unreadable"
    /\ status' = ExitUncaught
    /\ mpc' = "exit"
    /\ UNCHANGED <<root_ok, files, strict, pos, scanned, taxa_all, returned, mapping,
                   default_group_mode, rows, out_map, map_written, out_taxa, others>>

\* mapping = {} or the loaded table; default_group_mode = args.default_group
LoadGroups ==
    /\ mpc = "groups"
    /\ \E g \in {"none", "table"}, m \in Modes :
           /\ groups_arg' = g
           /\ mapping' = (IF g = "table" THEN GroupTable ELSE NoTable)
           /\ default_group_mode' = m
    /\ mpc' = "write"
    /\ UNCHANGED <<root_ok, files, strict, pos, scanned, taxa_all, returned,
                   rows, out_map, map_written, out_taxa, status, others>>

\* for t in sorted(taxa): f.write(f"{t}\t{pick_group(t)}\n"); with --out-taxa the
\* sorted taxa are written to a second file; then main ends
WriteMap ==
    /\ mpc = "write"
    /\ LET ts == Sorted(taxa_all)
       IN  /\ rows' = [i \in 1..Len(ts) |->
                          <<ts[i], PickGroup(ts[i], mapping, default_group_mode)>>]
           /\ out_map' = Concat([i \in 1..Len(ts) |->
                                    MapLine(ts[i], mapping, default_group_mode)])
    /\ map_written' = TRUE
    /\ \E w \in BOOLEAN :
           out_taxa' = [written |-> w, lines |-> IF w THEN Sorted(taxa_all) ELSE <<>>]
    /\ status' = ExitOk
    /\ mpc' = "exit"
    /\ UNCHANGED <<root_ok, files, strict, pos, scanned, taxa_all, returned, groups_arg,
                   mapping, default_group_mode, others>>

MainNext ==
    \/ BadInput \/ NoFiles \/ CallGather
    \/ ScanExtract \/ ScanIgnore \/ ScanWarn \/ ScanAbort
    \/ NoTaxa \/ GatherReturns
    \/ GroupsUnreadable \/ LoadGroups
    \/ WriteMap
SpecMain == MainInit /\ [][MainNext]_vars

(***************************************************************************)
(* Claims about gather_taxa and main (SpecMain).                           *)
(***************************************************************************)
\* file i has no known format, or its extractor raises
Bad(i) == FileOutcome[files[i]].fmt = "unknown" \/ Raises(files[i])
BadFiles == {i \in 1..Len(files) : Bad(i)}
\* the labels of the files that were extracted
GoodLabels == UNION {FileOutcome[files[i]].ts : i \in (1..Len(files)) \ BadFiles}
\* gather_taxa was called and has been left
Gathered == root_ok /\ files # <<>> /\ mpc \in {"groups", "write", "exit"}
UpToIndex(n) == [i \in 1..n |-> i]

\* C2: without --strict every file is handled, the bad ones skipped, and the
\* result is the union of the labels of the others; with --strict the first bad
\* file ends the scan with an error, no later file is handled and nothing is
\* returned.
GatherRule ==
    Gathered =>
        /\ ~strict =>
               /\ returned
               /\ scanned = UpToIndex(Len(files))
               /\ taxa_all = GoodLabels
        /\ (strict /\ BadFiles # {}) =>
               /\ ~returned
               /\ scanned = UpToIndex(Min(BadFiles))
               /\ mpc = "exit" /\ status = ExitUncaught
        /\ (strict /\ BadFiles = {}) =>
               /\ returned
               /\ scanned = UpToIndex(Len(files))
               /\ taxa_all = GoodLabels

\* without --strict, a bad file is followed by a file whose labels are kept
GatherWitness ==
    /\ Gathered /\ ~strict /\ returned
    /\ \E i, j \in 1..Len(files) :
           /\ i < j /\ Raises(files[i]) /\ ~Bad(j)
           /\ FileOutcome[files[j]].ts # {}
           /\ FileOutcome[files[j]].ts \subseteq taxa_all
    /\ \E i \in 1..Len(files) : FileOutcome[files[i]].fmt = "unknown"

Perms(n) == {p \in [1..n -> 1..n] : \A i, j \in 1..n : i # j => p[i] # p[j]}
Outcomes(fs) == [i \in 1..Len(fs) |-> FileOutcome[fs[i]]]
Permuted(fs, p) == [i \in 1..Len(fs) |-> fs[p[i]]]

\* C4: whatever the order of the files, gather_taxa returns the same set (or
\* fails alike), and the rows written are one per taxon of that set, ascending.
OrderIndependent ==
    /\ Gathered =>
           \A p \in Perms(Len(files)) :
               LET g == GatherFrom(Outcomes(Permuted(files, p)), 1, strict, {})
               IN  /\ g.ok = returned
                   /\ returned => g.taxa = taxa_all
    /\ map_written =>
           /\ \A i \in 1..(Len(rows) - 1) : LexLess(rows[i][1], rows[i + 1][1])
           /\ \A p \in Perms(Len(files)) :
                  {rows[i][1] : i \in 1..Len(rows)}
                      = GatherFrom(Outcomes(Permuted(files, p)), 1, strict, {}).taxa

\* three files, one of them twice, whose labels overlap, and a map written
OrderWitness ==
    /\ map_written
    /\ Len(files) = 3
    /\ files[1] = files[3] /\ files[1] # files[2]
    /\ FileOutcome[files[1]].ts \cap FileOutcome[files[2]].ts # {}
    /\ FileOutcome[files[2]].ts \ FileOutcome[files[1]].ts # {}
    /\ Len(rows) = 3

\* C5: a taxon of the group table gets its mapped value, empty or not, whatever
\* the policy; any other taxon gets itself under species, NA under NA and the
\* empty string under none.
GroupRule ==
    map_written =>
        \A i \in 1..Len(rows) :
            LET t == rows[i][1]
                g == rows[i][2]
            IN  /\ t \in DOMAIN mapping => g = mapping[t]
                /\ (t \notin DOMAIN mapping /\ default_group_mode = "species") => g = t
                /\ (t \notin DOMAIN mapping /\ default_group_mode = "NA") => g = <<"N", "A">>
                /\ (t \notin DOMAIN mapping /\ default_group_mode = "none") => g = <<>>

\* a mapped group, a mapped empty group and an unmapped taxon under policy NA
GroupWitness ==
    /\ map_written
    /\ default_group_mode = "NA"
    /\ \E i, j, k \in 1..Len(rows) :
           /\ rows[i][1] \in DOMAIN mapping /\ rows[i][2] = <<>>
           /\ rows[j][1] \in DOMAIN mapping /\ rows[j][2] # <<>>
           /\ rows[k][1] \notin DOMAIN mapping /\ rows[k][2] = <<"N", "A">>

\* the first TAB-separated column of each line of a map file
TaxonColumn(m) ==
    LET ls == SplitLines(m)
    IN  [i \in 1..Len(ls) |->
            IF Find(ls[i], <<"\t">>) = 0 THEN ls[i] ELSE UpTo(ls[i], "\t")]

\* C7: reading back the first column of the written map gives the sorted set of
\* taxa: same labels, same count, same order.
RoundTrip ==
    map_written => TaxonColumn(out_map) = Sorted(taxa_all)


(***************************************************************************)
(* C6 - format detection.                                                  *)
(***************************************************************************)
\* the lines the detector gets to see: the first DetectWindow ones, and only
\* those read before a failure
Seen(f) ==
    {i \in 1..Len(f.lines) : i <= DetectWindow /\ (f.fail = 0 \/ i < f.fail)}
IsFastaLine(l) == Strip(l) # <<>> /\ Strip(l)[1] = ">"
IsNexusLine(l) ==
    /\ Len(Strip(l)) >= Len(NEXUS_SIG)
    /\ \A x \in 1..Len(NEXUS_SIG) : LowerChar(Strip(l)[x]) = LowerChar(NEXUS_SIG[x])
Signed(f) == {i \in Seen(f) : IsFastaLine(f.lines[i]) \/ IsNexusLine(f.lines[i])}

\* C6: the first line in the window that, trimmed, begins with > or (in any
\* case) with #NEXUS decides the class, whatever the extension; without such a
\* line, or when reading fails before one, the (case-folded) extension decides:
\* .fasta/.fa/.fas fasta, .nex/.nexus nexus, anything else unknown; the
\* detector never raises.
DetectRule ==
    dpc = "done" =>
        /\ fmt \in {"fasta", "nexus", "unknown"}
        /\ Signed(path) # {} =>
               fmt = (IF IsFastaLine(path.lines[Min(Signed(path))]) THEN "fasta" ELSE "nexus")
        /\ Signed(path) = {} =>
               /\ fmt = "fasta" <=> Lower(path.ext) \in EXT_FASTA
               /\ fmt = "nexus" <=> Lower(path.ext) \in EXT_NEXUS

\* a signature right behind the window, in a file that cannot be read to the end
DetectWitness ==
    /\ dpc = "done"
    /\ Len(path.lines) > DetectWindow
    /\ IsFastaLine(path.lines[DetectWindow + 1])
    /\ Signed(path) = {}
    /\ path.fail # 0
    /\ fmt = "nexus"

\* the content overrides the extension
DetectContentWitness ==
    /\ dpc = "done"
    /\ Signed(path) # {}
    /\ fmt = "fasta"
    /\ Lower(path.ext) \in EXT_NEXUS

(***************************************************************************)
(* C10 - the tokenizer.                                                    *)
(***************************************************************************)
QUOTES == {"'", "\""}

\* the indices a match contributes to its token
ContentIdx(m) == IF m.group = 3 THEN m.from..m.to ELSE (m.from + 1)..(m.to - 1)

\* position p of the stripped line s is where the scan stands when match k starts
ScanStart(s, k) ==
    \/ spans[k].from = 1
    \/ IsSpace(s[spans[k].from - 1])
    \/ k > 1 /\ spans[k - 1].to = spans[k].from - 1

\* The quote pairs of a line as a three-state scanner (outside, in single quote,
\* in double quote) sees them: outside a quoted span, any quote that has a later
\* partner opens a span, also in the middle of a run of non-blanks; after a quote
\* without a partner the rest of the line is literal.
RECURSIVE QuotePairs(_, _)
QuotePairs(s, i) ==
    IF i > Len(s) THEN {}
    ELSE LET close == {j \in (i+1)..Len(s) : s[j] = s[i]}
         IN  IF s[i] \in QUOTES /\ close # {}
             THEN {<<i, Min(close)>>} \cup QuotePairs(s, Min(close) + 1)
             ELSE IF s[i] \in QUOTES THEN {}
             ELSE QuotePairs(s, i + 1)

\* C10 (as stated): every token is the content of a quoted span or a maximal run
\* of non-blanks, every quoted span of the line yields one token, and no
\* delimiting quote is part of a token's content.
TokenizeAsClaimed ==
    tpc = "done" =>
        LET s == Strip(line)
        IN  /\ \A pr \in QuotePairs(s, 1) :
                   \E k \in 1..Len(spans) :
                       /\ spans[k].from = pr[1] /\ spans[k].to = pr[2]
                       /\ toks[k] = SubSeq(s, pr[1] + 1, pr[2] - 1)
            /\ \A k \in 1..Len(spans), pr \in QuotePairs(s, 1) :
                   pr[1] \notin ContentIdx(spans[k]) /\ pr[2] \notin ContentIdx(spans[k])

\* C10 (amended): tokens are produced left to right from scan positions (the start
\* of the stripped line, after a blank, or right after the previous token).  A
\* quote at a scan position that has a later partner yields the text between the
\* two, blanks included and quotes excluded; anything else at a scan position
\* yields the run of non-blanks up to the next blank or the end, quotes inside
\* that run included.  Blanks outside quoted tokens yield nothing.
TokenizeRule ==
    tpc = "done" =>
        LET s == Strip(line)
        IN  /\ Len(toks) = Len(spans)
            /\ \A k \in 1..Len(spans) :
                   LET m == spans[k]
                   IN  /\ 1 <= m.from /\ m.from <= m.to /\ m.to <= Len(s)
                       /\ k < Len(spans) => m.to < spans[k + 1].from
                       /\ ScanStart(s, k)
                       /\ toks[k] = [x \in 1..Cardinality(ContentIdx(m)) |->
                                        s[Min(ContentIdx(m)) + x - 1]]
                       /\ m.group \in {1, 2} =>
                              /\ s[m.from] = (IF m.group = 1 THEN "'" ELSE "\"")
                              /\ s[m.to] = s[m.from]
                              /\ m.from < m.to
                              /\ \A x \in 1..Len(toks[k]) : toks[k][x] # s[m.from]
                       /\ m.group = 3 =>
                              /\ \A x \in 1..Len(toks[k]) : ~IsSpace(toks[k][x])
                              /\ m.to = Len(s) \/ IsSpace(s[m.to + 1])
                              /\ s[m.from] \in QUOTES =>
                                     \A j \in (m.from + 1)..Len(s) : s[j] # s[m.from]
            /\ \A i \in 1..Len(s) :
                   IF IsSpace(s[i])
                   THEN \A k \in 1..Len(spans) :
                            i \in spans[k].from..spans[k].to => spans[k].group \in {1, 2}
                   ELSE \E k \in 1..Len(spans) : i \in spans[k].from..spans[k].to

\* a quoted token that keeps a blank, next to a run that keeps a quote
TokenizeWitness ==
    /\ tpc = "done"
    /\ \E k \in 1..Len(spans) :
           spans[k].group = 1 /\ \E x \in 1..Len(toks[k]) : IsSpace(toks[k][x])
    /\ \E k \in 1..Len(spans) :
           spans[k].group = 3 /\ \E x \in 1..Len(toks[k]) : toks[k][x] \in QUOTES

(***************************************************************************)
(* C9 - comment stripping.                                                 *)
(***************************************************************************)
\* a [ together with the nearest ] after it
FlatSpans(s) ==
    {<<i, j>> \in (1..Len(s)) \X (1..Len(s)) :
        /\ i < j /\ s[i] = "[" /\ s[j] = "]"
        /\ \A k \in (i+1)..(j-1) : s[k] # "]"}
InFlatSpan(s, i) == \E sp \in FlatSpans(s) : sp[1] <= i /\ i <= sp[2]

\* brackets opened minus brackets closed over s[j..x]
Depth(s, j, x) ==
    Cardinality({k \in j..x : s[k] = "["}) - Cardinality({k \in j..x : s[k] = "]"})
\* s[j] is a [ and s[k] the ] that closes it, nested comments counted
Matched(s, j, k) ==
    /\ j < k /\ s[j] = "[" /\ s[k] = "]"
    /\ Depth(s, j, k) = 0
    /\ \A x \in j..(k-1) : Depth(s, j, x) > 0
\* position i lies strictly inside a comment
InComment(s, i) ==
    \E j \in 1..(i-1), k \in (i+1)..Len(s) : Matched(s, j, k)

\* C9 (as stated): stripping is idempotent and nothing that stood inside a
\* bracketed comment survives it.
StripAsClaimed ==
    /\ npc = "twice" => twice = no_comments
    /\ npc \in {"stripped", "twice"} => \A i \in kept : ~InComment(text, i)

\* C9 (amended): stripping is idempotent, and it removes exactly the spans that
\* run from a [ to the nearest ] after it: the stripped text is the raw text
\* without those spans, so no character between a [ and the nearest following ]
\* reaches the block searches.  (Text after the inner ] of a nested comment is
\* outside every such span and survives.)
StripRule ==
    /\ npc = "twice" => twice = no_comments
    /\ npc \in {"stripped", "twice"} =>
           /\ kept = {i \in 1..Len(text) : ~InFlatSpan(text, i)}
           /\ no_comments = SelectIdx(text, {i \in 1..Len(text) : ~InFlatSpan(text, i)})
           /\ \A i, j \in 1..Len(no_comments) :
                  ~(i < j /\ no_comments[i] = "[" /\ no_comments[j] = "]")

\* two comments around text that stays, stripped twice
StripWitness ==
    /\ npc = "twice"
    /\ \E a, b \in FlatSpans(text) : a[2] < b[1] /\ \E i \in kept : a[2] < i /\ i < b[1]
    /\ \E i \in 1..Len(text) : text[i] = "m" /\ InFlatSpan(text, i)

(***************************************************************************)
(* C1 - TAXLABELS before MATRIX.                                           *)
(***************************************************************************)
CleanLabel(l) == RStripSemi(Strip(l))

\* C1: when the TAXLABELS step yields a label, the MATRIX step is not run and the
\* result holds cleaned TAXLABELS labels only; the MATRIX step runs only after a
\* TAXLABELS step that yielded nothing, and its labels are then the only source.
TaxlabelsPriority ==
    npc = "return" =>
        /\ labels # <<>> =>
               /\ ~consulted /\ mlabels = <<>>
               /\ \A t \in cleaned : \E i \in 1..Len(labels) : t = CleanLabel(labels[i])
               /\ \A i \in 1..Len(labels) :
                      Strip(labels[i]) # <<>> => CleanLabel(labels[i]) \in cleaned
        /\ consulted => labels = <<>>
        /\ labels = <<>> =>
               /\ consulted
               /\ \A t \in cleaned : \E i \in 1..Len(mlabels) : t = CleanLabel(mlabels[i])

\* TAXLABELS yields a label while the MATRIX block holds a row label of its own
TaxlabelsPriorityWitness ==
    /\ npc = "return"
    /\ labels # <<>>
    /\ cleaned # {}
    /\ \E i \in 1..Len(ParseMatrixBlock(no_comments)) :
           CleanLabel(ParseMatrixBlock(no_comments)[i]) \notin cleaned

(***************************************************************************)
(* C8 - a MATRIX block without terminator.                                 *)
(***************************************************************************)
\* the keyword matrix is in the text and no ; follows it
Unterminated(t) ==
    /\ Find(Lower(t), MATRIX) # 0
    /\ \A i \in (Find(Lower(t), MATRIX) + Len(MATRIX))..Len(t) : t[i] # ";"

\* C8: when matrix is located and no ; follows it, the MATRIX step yields no
\* labels.
MatrixNeedsTerminator ==
    (npc \in {"matrix", "return"} /\ consulted /\ Unterminated(no_comments))
        => mlabels = <<>>

=============================================================================
